---- MODULE Spec2Model ----
(***************************************************************************)
(* Model of the Filtering cog (bot/cogs/filtering.py) and of wait_until    *)
(* (bot/utils/time.py): the rule dispatch loop, the invites and embeds     *)
(* matchers, the username check with its cooldown cache, and the deferred  *)
(* deletion of offensive messages.                                         *)
(*                                                                         *)
(* Time is a discrete clock `now` counting seconds.  A day is DayLen       *)
(* seconds in the model, so that retention periods and cooldown windows    *)
(* elapse within the explored horizon.  The host's local timezone is UTC.  *)
(***************************************************************************)
EXTENDS Integers, Sequences, FiniteSets, TLC

VARIABLES
    now,          \* datetime.utcnow(), in seconds
    Filter,       \* bot.constants.Filter: the static configuration
    msgs,         \* the chat platform's messages, by id
    store,        \* the site API's bot/offensive-messages records, by id
    tasks,        \* Scheduler._scheduled_tasks, by id
    boot,         \* the task created by __init__: reschedule_offensive_msg_deletion
    name_alerts,  \* RedisCache: user id -> timestamp of the last alert
    name_lock,    \* asyncio.Lock: 0 when free, else the holder
    pc,           \* per handler: where its on_message coroutine stands
    member,       \* per handler: the author whose name is being checked
    alerts,       \* per user: the times at which username alerts were emitted, the
                  \* number of cache writes, whether the cooldown held an alert back,
                  \* whether the send of an alert failed
    last          \* what the most recent _filter_message or delete_offensive_msg call did

vars == <<now, Filter, msgs, store, tasks, boot,
          name_alerts, name_lock, pc, member, alerts, last>>

----------------------------------------------------------------------------
(* Bounds of the model *)

MaxTime == 8        \* the clock of the username checks stops here
Horizon == 4        \* the clock of the filter pipeline stops here
MaxCreate == 1      \* no message is created after this time
DayLen == 2         \* seconds in a model day
MaxAlerts == 3      \* alerts recorded per user
MaxInvites == 3     \* invite codes found in one message
MaxEmbeds == 2      \* embeds of one message
MaxText == 11       \* characters of a text given to expand_spoilers

(* Configuration and program constants *)

offensive_msg_delete_days == 1
DAYS_BETWEEN_ALERTS == 3
DoubleTriggerMicros == 100
MicrosPerSecond == 1000000
ShortDelaySeconds == 1

MsgIds == {1, 2}
Users == {1, 2}
Procs == {1, 2}
None == 0
Empty == 0           \* embed.url of an embed without a source URL
Codes == {1, 2}      \* invite codes
NoDelta == 0 - 1     \* delta = None: the event is a new message

OFFENSIVE_MSG_DELETE_TIME == offensive_msg_delete_days * DayLen

----------------------------------------------------------------------------
(* The rule table, self.filters, in declaration order *)

RuleNames == <<"filter_zalgo", "filter_invites", "filter_domains", "watch_regex",
               "watch_rich_embeds", "watch_words", "watch_tokens">>

RuleSet == {RuleNames[i] : i \in 1..Len(RuleNames)}

HardFilters == {"filter_zalgo", "filter_invites", "filter_domains"}

\* The descriptor of each rule.  watch_regex has no "schedule_deletion" and
\* no "user_notification"; the watchlist rules have no "user_notification".
filters(cfg) ==
    [ filter_zalgo |->
        [enabled |-> "filter_zalgo" \in cfg.enabled, type |-> "filter",
         content_only |-> TRUE,
         user_notification |-> "filter_zalgo" \in cfg.notify,
         schedule_deletion |-> FALSE],
      filter_invites |->
        [enabled |-> "filter_invites" \in cfg.enabled, type |-> "filter",
         content_only |-> TRUE,
         user_notification |-> "filter_invites" \in cfg.notify,
         schedule_deletion |-> FALSE],
      filter_domains |->
        [enabled |-> "filter_domains" \in cfg.enabled, type |-> "filter",
         content_only |-> TRUE,
         user_notification |-> "filter_domains" \in cfg.notify,
         schedule_deletion |-> FALSE],
      watch_regex |->
        [enabled |-> "watch_regex" \in cfg.enabled, type |-> "watchlist",
         content_only |-> TRUE],
      watch_rich_embeds |->
        [enabled |-> "watch_rich_embeds" \in cfg.enabled, type |-> "watchlist",
         content_only |-> FALSE,
         schedule_deletion |-> FALSE],
      watch_words |->
        [enabled |-> "watch_words" \in cfg.enabled, type |-> "watchlist",
         content_only |-> TRUE,
         schedule_deletion |-> TRUE],
      watch_tokens |->
        [enabled |-> "watch_tokens" \in cfg.enabled, type |-> "watchlist",
         content_only |-> TRUE,
         schedule_deletion |-> TRUE] ]

\* The configurations explored: which rules are enabled, which notify.
FilterConfigs ==
    { [enabled |-> RuleSet, notify |-> HardFilters],
      [enabled |-> RuleSet \ {"watch_regex"}, notify |-> {"filter_invites"}],
      [enabled |-> RuleSet \ {"filter_zalgo", "watch_regex", "watch_words"},
       notify |-> {}] }

----------------------------------------------------------------------------
(* _filter_message *)

\* A message as an event delivers it:
\*   id, exists (still on the platform), created_at, private (a DM channel),
\*   channel_whitelisted, author = [is_member, role_whitelisted, bot],
\*   hits (the rules whose matcher returns a match for it).

\* What the transport does during one event.
Envs == [del : {"ok", "http"}, dm : {"ok", "forbidden"},
         post : {"ok", "fail"}, modlog : {"ok", "fail"}]

EnvOk == [del |-> "ok", dm |-> "ok", post |-> "ok", modlog |-> "ok"]

\* lines 218-229: should this message be filtered?
role_whitelisted(msg) == msg.author.is_member /\ msg.author.role_whitelisted

\* Variant: bots are filtered like members.
filter_messageBotsFiltered(msg) ==
    /\ ~msg.channel_whitelisted
    /\ ~role_whitelisted(msg)

filter_message(msg) ==
    /\ ~msg.channel_whitelisted
    /\ ~role_whitelisted(msg)
    /\ ~msg.author.bot

\* What an event gives of the content of its message: the invite codes that
\* INVITE_RE finds in the text, in order, with the guild each code resolves to
\* ("none", "white" for a guild of Filter.guild_invite_whitelist, "other"), the
\* embeds, and the URLs that URL_RE finds in the text.
NoContent == [invites |-> <<>>, guild |-> [c \in Codes |-> "none"],
              embeds |-> <<>>, urls |-> {}]

NoScan == [result |-> "False", data |-> {}, lookups |-> <<>>]

RECURSIVE invite_scan(_, _, _, _)
\* Variant: a code that resolves to no guild is passed over.
invite_scanPassOver(i, invites, guild, acc) ==
    IF i > Len(invites)
    THEN [acc EXCEPT !.result = IF acc.data # {} THEN "dict" ELSE "False"]
    ELSE LET invite == invites[i]
             looked == [acc EXCEPT !.lookups = Append(acc.lookups, invite)]
         IN  IF invite \in acc.data
             THEN invite_scan(i + 1, invites, guild, acc)
             ELSE IF guild[invite] = "none"
             THEN invite_scan(i + 1, invites, guild, looked)
             ELSE IF guild[invite] # "white"
             THEN invite_scan(i + 1, invites, guild,
                              [looked EXCEPT !.data = looked.data \cup {invite}])
             ELSE invite_scan(i + 1, invites, guild, looked)

\* lines 408-440: the loop over the codes.
\*   data:    the keys of invite_data
\*   lookups: the codes http_session.get was called for, in order
\*   result:  "True", "dict" (invite_data) or "False"
invite_scan(i, invites, guild, acc) ==
    IF i > Len(invites)
    THEN [acc EXCEPT !.result = IF acc.data # {} THEN "dict" ELSE "False"]
    ELSE LET invite == invites[i]
             looked == [acc EXCEPT !.lookups = Append(acc.lookups, invite)]
         IN  IF invite \in acc.data
             THEN invite_scan(i + 1, invites, guild, acc)
             ELSE IF guild[invite] = "none"
             THEN [looked EXCEPT !.result = "True", !.data = {}]
             ELSE IF guild[invite] # "white"
             THEN invite_scan(i + 1, invites, guild,
                              [looked EXCEPT !.data = looked.data \cup {invite}])
             ELSE invite_scan(i + 1, invites, guild, looked)

\* lines 394-440: _has_invites, on the codes of the text.
_has_invites(content) == invite_scan(1, content.invites, content.guild, NoScan)

RECURSIVE embed_scan(_, _, _)
\* lines 446-458: the loop over msg.embeds; it returns at the first rich embed.
embed_scan(i, embeds, urls) ==
    IF i > Len(embeds) THEN FALSE
    ELSE IF embeds[i].type = "rich"
    THEN IF embeds[i].url = Empty \/ embeds[i].url \notin urls
         THEN TRUE
         ELSE FALSE
    ELSE embed_scan(i + 1, embeds, urls)

\* lines 442-459: _has_rich_embed.
_has_rich_embed(content) ==
    IF content.embeds # <<>> THEN embed_scan(1, content.embeds, content.urls)
    ELSE FALSE

\* The value the invites matcher returns: computed from the codes when the
\* event gives them, else the sentinel True or False as the event says.
invite_match(msg) ==
    IF msg.content.invites # <<>> THEN _has_invites(msg.content)
    ELSE [NoScan EXCEPT !.result = IF "filter_invites" \in msg.hits
                                   THEN "True" ELSE "False"]

\* The matcher of a rule, called on the content or on the whole message: its
\* result is computed for the invites and embeds rules when the event gives
\* the codes or the embeds, and is given by the event otherwise.
match(name, msg) ==
    IF name = "filter_invites" THEN invite_match(msg).result # "False"
    ELSE IF name = "watch_rich_embeds" /\ msg.content.embeds # <<>>
    THEN _has_rich_embed(msg.content)
    ELSE name \in msg.hits

\* lines 316-333: the supplementary embeds of the moderation-log record:
\* none (given FALSE), one per invite of the mapping, or the embeds of the message.
NoEmbeds == [given |-> FALSE, codes |-> {}, embeds |-> <<>>]

additional_embeds(filter_name, msg) ==
    IF filter_name = "filter_invites" /\ invite_match(msg).result # "True"
    THEN [given |-> TRUE, codes |-> invite_match(msg).data, embeds |-> <<>>]
    ELSE IF filter_name = "watch_rich_embeds"
    THEN [given |-> TRUE, codes |-> {}, embeds |-> msg.content.embeds]
    ELSE NoEmbeds

\* lines 286-347: the report, the counter and the moderation-log record.
report(env) ==
    IF env.modlog = "ok"
    THEN [trace |-> <<"incr", "modlog">>, end |-> "break"]
    ELSE [trace |-> <<"incr">>, end |-> "modlog_error"]

\* lines 272-284: the deferred deletion of an offensive message.
\* Variant: the task is registered before the record is written.
offensiveScheduleFirst(f, is_private, env) ==
    IF "schedule_deletion" \notin DOMAIN f
    THEN [trace |-> <<>>, end |-> "KeyError"]
    ELSE IF f.schedule_deletion /\ ~is_private
    THEN IF env.post = "ok"
         THEN [trace |-> <<"schedule", "post">>, end |-> "go"]
         ELSE [trace |-> <<"schedule">>, end |-> "post_error"]
    ELSE [trace |-> <<>>, end |-> "go"]

\* Variant: every rule that matches outside a DM asks for the deferred deletion.
offensiveAlways(f, is_private, env) ==
    IF "schedule_deletion" \notin DOMAIN f
    THEN [trace |-> <<>>, end |-> "KeyError"]
    ELSE IF ~is_private
    THEN IF env.post = "ok"
         THEN [trace |-> <<"post", "schedule">>, end |-> "go"]
         ELSE [trace |-> <<>>, end |-> "post_error"]
    ELSE [trace |-> <<>>, end |-> "go"]

offensive(f, is_private, env) ==
    IF "schedule_deletion" \notin DOMAIN f
    THEN [trace |-> <<>>, end |-> "KeyError"]
    ELSE IF f.schedule_deletion /\ ~is_private
    THEN IF env.post = "ok"
         THEN [trace |-> <<"post", "schedule">>, end |-> "go"]
         ELSE [trace |-> <<>>, end |-> "post_error"]
    ELSE [trace |-> <<>>, end |-> "go"]

\* lines 461-470: notify_member.  A refused direct message ("dm_refused",
\* discord.errors.Forbidden) is followed by a mention in the channel.
\* Variant: a refused direct message is followed by nothing.
notify_memberNoFallback(env) ==
    IF env.dm = "ok" THEN <<"dm">> ELSE <<"dm_refused">>

notify_member(env) ==
    IF env.dm = "ok" THEN <<"dm">> ELSE <<"dm_refused", "mention">>

\* Variant: NotFound is swallowed and the body goes on.
hard_deleteIgnoreNotFound(f, msg, is_private, env) ==
    IF f.type = "filter" /\ ~is_private
    THEN IF ~msg.exists
         THEN [trace |-> <<>>, end |-> "go"]
         ELSE IF env.del # "ok"
         THEN [trace |-> <<>>, end |-> "delete_error"]
         ELSE [trace |-> <<"delete">> \o
                         (IF f.user_notification THEN notify_member(env) ELSE <<>>),
               end |-> "go"]
    ELSE [trace |-> <<>>, end |-> "go"]

\* lines 252-270: a hard filter outside a DM deletes the message.
\* Variant: a hard filter deletes the message in a DM too.
hard_deleteInDM(f, msg, is_private, env) ==
    IF f.type = "filter"
    THEN IF ~msg.exists
         THEN [trace |-> <<>>, end |-> "not_found"]
         ELSE IF env.del # "ok"
         THEN [trace |-> <<>>, end |-> "delete_error"]
         ELSE [trace |-> <<"delete">> \o
                         (IF f.user_notification THEN notify_member(env) ELSE <<>>),
               end |-> "go"]
    ELSE [trace |-> <<>>, end |-> "go"]

hard_delete(f, msg, is_private, env) ==
    IF f.type = "filter" /\ ~is_private
    THEN IF ~msg.exists
         THEN [trace |-> <<>>, end |-> "not_found"]
         ELSE IF env.del # "ok"
         THEN [trace |-> <<>>, end |-> "delete_error"]
         ELSE [trace |-> <<"delete">> \o
                         (IF f.user_notification THEN notify_member(env) ELSE <<>>),
               end |-> "go"]
    ELSE [trace |-> <<>>, end |-> "go"]

\* lines 249-349: the body run for the rule that matched.
\* Variant: the report is made first, the deletions after it.
on_matchReportFirst(f, msg, env) ==
    LET is_private == msg.private
        d == hard_delete(f, msg, is_private, env)
        o == offensive(f, is_private, env)
        r == report(env)
    IN  IF d.end # "go" THEN [trace |-> r.trace \o d.trace, end |-> d.end]
        ELSE IF o.end # "go"
        THEN [trace |-> r.trace \o d.trace \o o.trace, end |-> o.end]
        ELSE [trace |-> r.trace \o d.trace \o o.trace, end |-> r.end]

on_match(f, msg, env) ==
    LET is_private == msg.private
        d == hard_delete(f, msg, is_private, env)
        o == offensive(f, is_private, env)
        r == report(env)
    IN  IF d.end # "go" THEN d
        ELSE IF o.end # "go" THEN [trace |-> d.trace \o o.trace, end |-> o.end]
        ELSE [trace |-> d.trace \o o.trace \o r.trace, end |-> r.end]

\* lines 236-241: the double trigger check of the embeds filter.
double_trigger(name, delta) ==
    name = "watch_rich_embeds" /\ delta # NoDelta /\ delta < DoubleTriggerMicros

RECURSIVE filter_loop(_, _, _, _, _)
\* Variant: the loop goes on after a rule has matched and reported.
filter_loopNoBreak(i, msg, delta, env, acc) ==
    IF i > Len(RuleNames) THEN acc
    ELSE LET name == RuleNames[i]
             f == filters(Filter)[name]
         IN  IF ~f.enabled \/ double_trigger(name, delta)
             THEN filter_loop(i + 1, msg, delta, env, acc)
             ELSE LET ev == Append(acc.evaluated, name)
                  IN  IF ~match(name, msg)
                      THEN filter_loop(i + 1, msg, delta, env,
                                       [acc EXCEPT !.evaluated = ev])
                      ELSE LET m == on_match(f, msg, env)
                               next == [acc EXCEPT !.evaluated = ev,
                                            !.trace = acc.trace \o m.trace,
                                            !.acted = acc.acted \o
                                                (IF m.trace # <<>> THEN <<name>> ELSE <<>>),
                                            !.matched = acc.matched \o <<name>>,
                                            !.end = m.end]
                           IN  IF m.end = "break"
                               THEN filter_loop(i + 1, msg, delta, env, next)
                               ELSE next

\* lines 233-349: the loop over self.filters.items(); it ends at the first match.
filter_loop(i, msg, delta, env, acc) ==
    IF i > Len(RuleNames) THEN acc
    ELSE LET name == RuleNames[i]
             f == filters(Filter)[name]
         IN  IF ~f.enabled \/ double_trigger(name, delta)
             THEN filter_loop(i + 1, msg, delta, env, acc)
             ELSE LET ev == Append(acc.evaluated, name)
                  IN  IF ~match(name, msg)
                      THEN filter_loop(i + 1, msg, delta, env,
                                       [acc EXCEPT !.evaluated = ev])
                      ELSE LET m == on_match(f, msg, env)
                           IN  [acc EXCEPT !.evaluated = ev,
                                    !.trace = acc.trace \o m.trace,
                                    !.acted = acc.acted \o
                                        (IF m.trace # <<>> THEN <<name>> ELSE <<>>),
                                    !.matched = acc.matched \o <<name>>,
                                    !.end = m.end]

NoResult == [evaluated |-> <<>>, trace |-> <<>>, acted |-> <<>>, matched |-> <<>>,
             end |-> "no_match", exempt |-> FALSE]

\* The record kept of the most recent call: of _filter_message (kind "new" or
\* "edit": the event's inputs, what the invites matcher did if it was called,
\* \* the supplementary embeds if the report was reached), of delete_offensive_msg
\* (kind "deletion": how many seconds before its delete-at it ran, with which
\* result, whether the store held the record before it and whether the record
\* was gone after it) or of expand_spoilers (kind "text" before the call,
\* "expanded" after it: the text, SPOILER_RE.split(text), the value returned).
NoCall == NoResult @@
          [kind |-> "none", id |-> 0, private |-> FALSE, found |-> FALSE,
           hits |-> {}, delta |-> NoDelta, channel_whitelisted |-> FALSE,
           author |-> [is_member |-> FALSE, role_whitelisted |-> FALSE, bot |-> FALSE],
           name_check |-> FALSE, lead |-> 0, result |-> "none",
           had_record |-> FALSE, purged |-> FALSE,
           elapsed |-> NoDelta, content |-> NoContent,
           scan |-> NoScan, additional_embeds |-> NoEmbeds,
           text |-> <<>>, split_text |-> <<>>, expanded |-> <<>>,
           channel_str |-> "none"]

\* lines 215-349: _filter_message(msg, delta).
\*   evaluated: the rules whose matcher was called, in order
\*   matched:   the rules whose matcher matched
\*   trace:     the actions performed, in order
\*   acted:     the rules that performed an action
\*   end:       how the call ended
_filter_message(msg, delta, env) ==
    IF filter_message(msg)
    THEN filter_loop(1, msg, delta, env, NoResult)
    ELSE [NoResult EXCEPT !.exempt = TRUE, !.end = "exempt"]

Raised == {"KeyError", "delete_error", "post_error", "modlog_error"}

----------------------------------------------------------------------------
(* expand_spoilers *)

\* A text is a sequence of characters; "|" is the bar, "a" any other character.
Chars == {"a", "|"}

\* "||" stands at position i of t.
bars(t, i) == i + 1 <= Len(t) /\ t[i] = "|" /\ t[i + 1] = "|"

\* line 37: SPOILER_RE, \|\|.+?\|\| with DOTALL, tried at position i: after
\* the opening bars, the fewest characters, at least one and a bar or not,
\* that closing bars follow.  The positions where the match may close.
closings(t, i) == {j \in (i + 3)..(Len(t) - 1) : bars(t, j)}

least(S) == CHOOSE j \in S : \A k \in S : j <= k

RECURSIVE split_from(_, _, _, _)
\* line 54: SPOILER_RE.split(text).  The pattern is one capturing group, so
\* the list alternates the text between the matches and the matches: the
\* search goes on from `i`, the text not yet listed begins at `from`.
split_from(t, from, i, acc) ==
    IF i > Len(t) THEN Append(acc, SubSeq(t, from, Len(t)))
    ELSE IF bars(t, i) /\ closings(t, i) # {}
    THEN LET j == least(closings(t, i))
         IN  split_from(t, j + 2, j + 2,
                        acc \o <<SubSeq(t, from, i - 1), SubSeq(t, i, j + 1)>>)
    ELSE split_from(t, from, i + 1, acc)

SPOILER_RE_split(text) == split_from(text, 1, 1, <<>>)

RECURSIVE join(_)
\* ''.join(list)
join(list) == IF list = <<>> THEN <<>> ELSE Head(list) \o join(Tail(list))

\* list[start::2], `start` counted from zero.
every_other(list, start) ==
    [k \in 1..((Len(list) - start + 1) \div 2) |-> list[start + 2 * k - 1]]

\* lines 52-57: expand_spoilers.
\* Variant: the spoilers are not repeated on their own.
expand_spoilersNoInside(text) ==
    LET split_text == SPOILER_RE_split(text)
    IN  join(every_other(split_text, 0) \o split_text)

expand_spoilers(text) ==
    LET split_text == SPOILER_RE_split(text)
    IN  join(every_other(split_text, 0) \o every_other(split_text, 1) \o split_text)

----------------------------------------------------------------------------
(* Scheduler (bot.utils.scheduling) and the deferred deletion *)

NoTask == [pc |-> "none", delete_at |-> 0, count |-> 0, replaced |-> FALSE]
NoRecord == [present |-> FALSE, delete_at |-> 0]

\* Scheduler.schedule_task(id, data): a task already scheduled for the id is
\* cancelled and replaced; the new task starts _scheduled_task(data).
\* count is the number of tasks alive for the id.
\* Variant: the task already scheduled is kept beside the new one.
schedule_taskKeepBoth(reg, id, data) ==
    [reg EXCEPT ![id] = [pc |-> "start", delete_at |-> data.delete_at,
                         count |-> IF reg[id].count < 2 THEN reg[id].count + 1 ELSE 2,
                         replaced |-> reg[id].pc # "none"]]

schedule_task(reg, id, data) ==
    [reg EXCEPT ![id] = [pc |-> "start", delete_at |-> data.delete_at, count |-> 1,
                         replaced |-> reg[id].pc # "none"]]

\* time.py lines 103-108: wait_until sleeps only when the delay exceeds a second.
\* Variant: the sleep is skipped up to two seconds before the time.
wait_until_sleepsLate(time, start) == (time - start) > ShortDelaySeconds + 1

wait_until_sleeps(time, start) == (time - start) > ShortDelaySeconds

\* What the transport does during one deletion-and-cleanup.
DelEnvs == { [channel |-> "found", del |-> "ok"], [channel |-> "found", del |-> "http"],
             [channel |-> "missing", del |-> "ok"] }

\* lines 496-507: the outcome of the attempt to delete the message.
delete_result(id, env) ==
    IF env.channel = "missing" THEN "no_channel"
    ELSE IF msgs[id].state # "live" THEN "NotFound"
    ELSE IF env.del # "ok" THEN "HTTPException"
    ELSE "deleted"

\* line 509: the record is removed from the store.
\* Variant: the record is kept when the delete of the message failed.
purgeSkipOnError(st, id, result) ==
    IF result \in {"NotFound", "HTTPException"} THEN st
    ELSE [st EXCEPT ![id] = NoRecord]

purge(st, id, result) == [st EXCEPT ![id] = NoRecord]

\* lines 494-510: delete_offensive_msg(msg), run for the record `due` of `id`.
delete_offensive_msg(id, due, env) ==
    LET result == delete_result(id, env)
        st == purge(store, id, result)
    IN  /\ msgs' = IF result = "deleted"
                   THEN [msgs EXCEPT ![id].state = "gone"]
                   ELSE msgs
        /\ store' = st
        /\ last' = [NoCall EXCEPT !.kind = "deletion", !.id = id,
                        !.lead = IF due > now THEN due - now ELSE 0,
                        !.result = result,
                        !.had_record = store[id].present,
                        !.purged = ~st[id].present]

\* lines 472-477: _scheduled_task starts: wait_until(delete_at) either sleeps
\* or returns at once, and then the deletion runs.
TaskStart(id, env) ==
    /\ tasks[id].pc = "start"
    /\ IF wait_until_sleeps(tasks[id].delete_at, now)
       THEN /\ tasks' = [tasks EXCEPT ![id].pc = "sleeping"]
            /\ UNCHANGED <<msgs, store, last>>
       ELSE /\ delete_offensive_msg(id, tasks[id].delete_at, env)
            /\ tasks' = [tasks EXCEPT ![id] = NoTask]
    /\ UNCHANGED <<now, Filter, boot, name_alerts, name_lock, pc, member, alerts>>

\* lines 476-477: the sleep of wait_until ends at delete_at, the deletion runs.
TaskWake(id, env) ==
    /\ tasks[id].pc = "sleeping"
    /\ now >= tasks[id].delete_at
    /\ delete_offensive_msg(id, tasks[id].delete_at, env)
    /\ tasks' = [tasks EXCEPT ![id] = NoTask]
    /\ UNCHANGED <<now, Filter, boot, name_alerts, name_lock, pc, member, alerts>>

\* line 4 binds the name `datetime` to the class datetime.datetime, which has
\* no attribute `datetime`: line 484, datetime.datetime.utcnow(), raises
\* AttributeError.
datetime_datetime_resolves == FALSE

Recorded == {id \in MsgIds : store[id].present}

Booting == [status |-> "pending", fetched |-> {}, deleted |-> {}, scheduled |-> {}]

\* lines 479-492: reschedule_offensive_msg_deletion.
reschedule_offensive_msg_deletion(env) ==
    /\ boot.status = "pending"
    /\ LET response == Recorded
       IN  IF ~datetime_datetime_resolves
           THEN /\ boot' = [status |-> "AttributeError", fetched |-> response,
                            deleted |-> {}, scheduled |-> {}]
                /\ UNCHANGED <<msgs, store, tasks>>
           ELSE LET elapsed == {id \in response : store[id].delete_at < now}
                IN  /\ boot' = [status |-> "done", fetched |-> response,
                                deleted |-> elapsed, scheduled |-> response \ elapsed]
                    /\ msgs' = [id \in MsgIds |->
                                  IF id \in elapsed /\ delete_result(id, env) = "deleted"
                                  THEN [msgs[id] EXCEPT !.state = "gone"] ELSE msgs[id]]
                    /\ store' = [id \in MsgIds |->
                                  IF id \in elapsed THEN NoRecord ELSE store[id]]
                    /\ tasks' = [id \in MsgIds |->
                                  IF id \in response \ elapsed
                                  THEN schedule_task(tasks, id, store[id])[id]
                                  ELSE tasks[id]]
    /\ UNCHANGED <<now, Filter, name_alerts, name_lock, pc, member, alerts, last>>

----------------------------------------------------------------------------
(* The event handlers *)

\* The message of an event, as _filter_message sees it.
Message(id, author, channel_whitelisted, hits, content, m) ==
    [id |-> id, exists |-> m.state = "live", created_at |-> m.created_at,
     private |-> m.private, channel_whitelisted |-> channel_whitelisted,
     author |-> author, hits |-> hits, content |-> content]

\* lines 275-280: the record of a flagged message.
\* Variant: the retention period runs from the event, not from the creation.
offensive_recordFromNow(msg) ==
    [present |-> TRUE, delete_at |-> now + OFFENSIVE_MSG_DELETE_TIME]

offensive_record(msg) ==
    [present |-> TRUE, delete_at |-> msg.created_at + OFFENSIVE_MSG_DELETE_TIME]

Has(seq, x) == \E i \in 1..Len(seq) : seq[i] = x

\* The effects of the actions _filter_message performed, on the platform,
\* the store and the scheduler.
apply(r, msg, m) ==
    /\ msgs' = [msgs EXCEPT ![msg.id] =
                   IF Has(r.trace, "delete") THEN [m EXCEPT !.state = "gone"] ELSE m]
    /\ store' = IF Has(r.trace, "post")
                THEN [store EXCEPT ![msg.id] = offensive_record(msg)]
                ELSE store
    /\ tasks' = IF Has(r.trace, "schedule")
                THEN schedule_task(tasks, msg.id, offensive_record(msg))
                ELSE tasks

\* lines 286-289: how the log message names the place of the message.
channel_str(is_private) == IF is_private THEN "via DM" ELSE "in channel"

\* What the record of a _filter_message call keeps beside the result r.
call_record(r, msg) ==
    [NoCall EXCEPT !.id = msg.id, !.private = msg.private, !.found = msg.exists,
                   !.hits = msg.hits, !.author = msg.author,
                   !.channel_whitelisted = msg.channel_whitelisted,
                   !.content = msg.content,
                   !.scan = IF Has(r.evaluated, "filter_invites")
                            THEN invite_match(msg) ELSE NoScan,
                   !.additional_embeds =
                       IF Has(r.trace, "incr")
                       THEN additional_embeds(r.matched[Len(r.matched)], msg)
                       ELSE NoEmbeds,
                   !.channel_str =
                       IF Has(r.trace, "incr") THEN channel_str(msg.private)
                       ELSE "none"]

\* lines 147-151: on_message.  The message is new; the username check runs
\* after _filter_message has returned.
on_message(p, id, private, author, channel_whitelisted, hits, content, env, u, name_hit) ==
    /\ msgs[id].state = "none"
    /\ pc[p] = "idle"
    /\ now <= MaxCreate
    /\ LET m == [state |-> "live", created_at |-> now, private |-> private]
           msg == Message(id, author, channel_whitelisted, hits, content, m)
           r == _filter_message(msg, NoDelta, env)
       IN  /\ apply(r, msg, m)
           /\ last' = r @@ [call_record(r, msg) EXCEPT
                                !.kind = "new",
                                !.name_check = r.end \notin Raised]
           /\ IF r.end \in Raised
              THEN UNCHANGED <<pc, member>>
              ELSE /\ pc' = [pc EXCEPT ![p] = "acquire"]
                   /\ member' = [member EXCEPT ![p] = [id |-> u, hit |-> name_hit]]
    /\ UNCHANGED <<now, Filter, boot, name_alerts, name_lock, alerts>>

\* relativedelta(a, b).microseconds: the microsecond field of the
\* difference, not the difference in microseconds.
relativedelta_microseconds(elapsed) == elapsed % MicrosPerSecond

\* lines 153-164: on_message_edit.  `elapsed` is the time in microseconds
\* from the previous edit, or from the creation for a first edit.
on_message_edit(id, elapsed, author, channel_whitelisted, hits, content, env) ==
    /\ msgs[id].state # "none"
    /\ LET m == msgs[id]
           msg == Message(id, author, channel_whitelisted, hits, content, m)
           delta == relativedelta_microseconds(elapsed)
           r == _filter_message(msg, delta, env)
       IN  /\ apply(r, msg, m)
           /\ last' = r @@ [call_record(r, msg) EXCEPT
                                !.kind = "edit", !.delta = delta,
                                !.elapsed = elapsed]
    /\ UNCHANGED <<now, Filter, boot, name_alerts, name_lock, pc, member, alerts>>

\* An edit event whose rule asks for the deferred deletion, in the two steps
\* that the await of line 282 separates: other coroutines run between them.
\* `p` is the handler that runs the event.
\* lines 153-282: up to the write of the record, which the store has done.
on_message_edit_posted(p, id, elapsed, author, hits) ==
    /\ msgs[id].state # "none"
    /\ pc[p] = "idle"
    /\ LET msg == Message(id, author, FALSE, hits, NoContent, msgs[id])
           r == _filter_message(msg, relativedelta_microseconds(elapsed), EnvOk)
       IN  /\ Has(r.trace, "post")
           /\ store' = [store EXCEPT ![id] = offensive_record(msg)]
    /\ pc' = [pc EXCEPT ![p] = "posted"]
    /\ UNCHANGED <<now, Filter, msgs, tasks, boot, name_alerts, name_lock,
                   member, alerts, last>>

\* lines 283-349: the post has returned; the task is registered, the report
\* is sent.
on_message_edit_resumed(p, id, elapsed, author, hits) ==
    /\ pc[p] = "posted"
    /\ LET msg == Message(id, author, FALSE, hits, NoContent, msgs[id])
           delta == relativedelta_microseconds(elapsed)
           r == _filter_message(msg, delta, EnvOk)
       IN  /\ tasks' = schedule_task(tasks, id, offensive_record(msg))
           /\ last' = r @@ [call_record(r, msg) EXCEPT
                                !.kind = "edit", !.delta = delta,
                                !.elapsed = elapsed]
    /\ pc' = [pc EXCEPT ![p] = "idle"]
    /\ UNCHANGED <<now, Filter, msgs, store, boot, name_alerts, name_lock,
                   member, alerts>>

----------------------------------------------------------------------------
(* The username check *)

\* datetime.utcnow().timestamp() and datetime.utcfromtimestamp(), on a host
\* whose local timezone is UTC.
timestamp(t) == t
utcfromtimestamp(ts) == ts

timedelta_days(n) == n * DayLen

\* lines 175-183: check_send_alert.  A missing record and a zero timestamp
\* are both falsy.
\* Variant: an alert exactly three days old still holds the next one back.
check_send_alertInclusive(u) ==
    LET last_alert == name_alerts[u]
    IN  IF last_alert # None
        THEN ~(now - timedelta_days(DAYS_BETWEEN_ALERTS) <= utcfromtimestamp(last_alert))
        ELSE TRUE

check_send_alert(u) ==
    LET last_alert == name_alerts[u]
    IN  IF last_alert # None
        THEN ~(now - timedelta_days(DAYS_BETWEEN_ALERTS) < utcfromtimestamp(last_alert))
        ELSE TRUE

\* line 188: async with self.name_lock.
\* Variant: the block is entered without the lock.
lock_freeNoLock(p) == TRUE

lock_free(p) == name_lock = 0

NoMember == [id |-> 0, hit |-> FALSE]

NameAcquire(p) ==
    /\ pc[p] = "acquire"
    /\ lock_free(p)
    /\ name_lock' = p
    /\ pc' = [pc EXCEPT ![p] = "check"]
    /\ UNCHANGED <<now, Filter, msgs, store, tasks, boot,
                   name_alerts, member, alerts, last>>

\* The lock is released when the block is left, also by an exception.
\* Variant: the lock stays held when the block is left.
releaseKeepLock(p) ==
    /\ name_lock' = name_lock
    /\ member' = [member EXCEPT ![p] = NoMember]

release(p) ==
    /\ name_lock' = IF name_lock = p THEN 0 ELSE name_lock
    /\ member' = [member EXCEPT ![p] = NoMember]

\* lines 190-193: the name matches and the cooldown.
NameCheck(p) ==
    /\ pc[p] = "check"
    /\ IF ~member[p].hit \/ ~check_send_alert(member[p].id)
       THEN /\ pc' = [pc EXCEPT ![p] = "idle"]
            /\ release(p)
            /\ alerts' = IF member[p].hit
                         THEN [alerts EXCEPT ![member[p].id].cooled = TRUE]
                         ELSE alerts
       ELSE /\ pc' = [pc EXCEPT ![p] = "send"]
            /\ UNCHANGED <<name_lock, member, alerts>>
    /\ UNCHANGED <<now, Filter, msgs, store, tasks, boot, name_alerts, last>>

\* lines 203-210: the alert is sent to the moderation log, or the send fails.
NameSend(p, ok) ==
    /\ pc[p] = "send"
    /\ Len(alerts[member[p].id].sent) < MaxAlerts
    /\ IF ok
       THEN /\ alerts' = [alerts EXCEPT ![member[p].id].sent = Append(@, now)]
            /\ pc' = [pc EXCEPT ![p] = "set"]
            /\ UNCHANGED <<name_lock, member>>
       ELSE /\ pc' = [pc EXCEPT ![p] = "idle"]
            /\ release(p)
            /\ alerts' = [alerts EXCEPT ![member[p].id].failed = TRUE]
    /\ UNCHANGED <<now, Filter, msgs, store, tasks, boot, name_alerts, last>>

\* line 213: the time of the alert is stored.
NameSet(p) ==
    /\ pc[p] = "set"
    /\ name_alerts' = [name_alerts EXCEPT ![member[p].id] = timestamp(now)]
    /\ alerts' = [alerts EXCEPT ![member[p].id].writes =
                     IF @ < MaxAlerts THEN @ + 1 ELSE @]
    /\ pc' = [pc EXCEPT ![p] = "idle"]
    /\ release(p)
    /\ UNCHANGED <<now, Filter, msgs, store, tasks, boot, last>>

----------------------------------------------------------------------------
(* The environment *)

\* A second passes.  A task created by schedule_task starts at the next
\* iteration of the event loop, before the clock has advanced by a second.
TickTo(limit) ==
    /\ now < limit
    /\ \A id \in MsgIds : tasks[id].pc # "start"
    /\ now' = now + 1
    /\ UNCHANGED <<Filter, msgs, store, tasks, boot,
                   name_alerts, name_lock, pc, member, alerts, last>>

\* The process restarts: what it held in memory is lost, the store and the
\* cache are kept, and __init__ creates the recovery task again (line 140).
Restart ==
    /\ tasks' = [id \in MsgIds |-> NoTask]
    /\ boot' = Booting
    /\ name_lock' = 0
    /\ pc' = [p \in Procs |-> "idle"]
    /\ member' = [p \in Procs |-> NoMember]
    /\ UNCHANGED <<now, Filter, msgs, store, name_alerts, alerts, last>>

\* Somebody else deletes a message.
ExternalDelete(id) ==
    /\ msgs[id].state = "live"
    /\ msgs' = [msgs EXCEPT ![id].state = "gone"]
    /\ UNCHANGED <<now, Filter, store, tasks, boot,
                   name_alerts, name_lock, pc, member, alerts, last>>

----------------------------------------------------------------------------
(* The inputs explored *)

Plain == [is_member |-> TRUE, role_whitelisted |-> FALSE, bot |-> FALSE]

Authors ==
    { Plain,
      [is_member |-> TRUE, role_whitelisted |-> TRUE, bot |-> FALSE],
      [is_member |-> TRUE, role_whitelisted |-> FALSE, bot |-> TRUE],
      [is_member |-> FALSE, role_whitelisted |-> FALSE, bot |-> FALSE] }

HitSets ==
    { {}, {"filter_zalgo"}, {"filter_domains"}, {"filter_invites", "watch_words"},
      {"watch_regex", "watch_tokens"}, {"watch_rich_embeds", "watch_words"},
      {"watch_words", "watch_tokens"}, {"watch_tokens"} }

\* A double trigger and an edit at the threshold; an edit a second later.
ShortElapsed == {50, 100}
ElapsedMicros == ShortElapsed \cup {1000050}

\* One transport failure at a time.
Envs1 == {e \in Envs : Cardinality({k \in DOMAIN e : e[k] \notin {"ok"}}) <= 1}

\* Who sent the message, where, and what the transport does.
Senders ==
    {<<a, FALSE, EnvOk>> : a \in Authors} \cup {<<Plain, TRUE, EnvOk>>}
    \cup {<<Plain, FALSE, e>> : e \in Envs1}

InitBase(configs) ==
    /\ now = 1
    /\ Filter \in configs
    /\ msgs = [id \in MsgIds |-> [state |-> "none", created_at |-> 0, private |-> FALSE]]
    /\ store = [id \in MsgIds |-> NoRecord]
    /\ tasks = [id \in MsgIds |-> NoTask]
    /\ boot = Booting
    /\ name_alerts = [u \in Users |-> None]
    /\ name_lock = 0
    /\ pc = [p \in Procs |-> "idle"]
    /\ member = [p \in Procs |-> NoMember]
    /\ alerts = [u \in Users |-> [sent |-> <<>>, writes |-> 0, cooled |-> FALSE,
                                  failed |-> FALSE]]

InitWith(configs) == InitBase(configs) /\ last = NoCall

Init == InitWith(FilterConfigs)

\* The filter pipeline with the deferred deletions, over restarts; the
\* messages are flagged by a watchlist rule, removed by a hard filter, or clean.
SchedHits == { {}, {"filter_domains"}, {"watch_tokens"} }

Next ==
    \/ \E id \in MsgIds, hits \in SchedHits :
          on_message(id, id, FALSE, Plain, FALSE, hits, NoContent, EnvOk, 1, FALSE)
    \/ \E id \in MsgIds, hits \in SchedHits :
          on_message_edit(id, 1000050, Plain, FALSE, hits, NoContent, EnvOk)
    \/ \E id \in MsgIds, env \in DelEnvs : TaskStart(id, env)
    \/ \E id \in MsgIds, env \in DelEnvs : TaskWake(id, env)
    \/ \E env \in DelEnvs : reschedule_offensive_msg_deletion(env)
    \/ \E id \in MsgIds : ExternalDelete(id)
    \/ Restart
    \/ TickTo(Horizon)

InitSched == InitWith({[enabled |-> RuleSet, notify |-> HardFilters]})

Spec == InitSched /\ [][Next]_vars

\* One message and the events about it, for every rule, sender and transport
\* failure.
NextDispatch ==
    \/ \E private \in BOOLEAN, s \in Senders, hits \in HitSets :
          on_message(1, 1, private, s[1], s[2], hits, NoContent, s[3], 1, FALSE)
    \/ \E elapsed \in ShortElapsed, s \in Senders, hits \in HitSets :
          on_message_edit(1, elapsed, s[1], s[2], hits, NoContent, s[3])
    \/ ExternalDelete(1)

SpecDispatch == Init /\ [][NextDispatch]_vars

\* The username checks of concurrent on_message handlers; the messages are
\* clean.
NextNames ==
    \/ \E p \in Procs, id \in MsgIds, u \in Users, name_hit \in BOOLEAN :
          on_message(p, id, FALSE, Plain, FALSE, {}, NoContent, EnvOk, u, name_hit)
    \/ \E p \in Procs : NameAcquire(p)
    \/ \E p \in Procs : NameCheck(p)
    \/ \E p \in Procs, ok \in BOOLEAN : NameSend(p, ok)
    \/ \E p \in Procs : NameSet(p)
    \/ TickTo(MaxTime)

SpecNames == Init /\ [][NextNames]_vars

\* One message and the events about it, for every list of invite codes and
\* every list of embeds.
Embeds ==
    { [type |-> "rich", url |-> Empty], [type |-> "rich", url |-> 1],
      [type |-> "rich", url |-> 2], [type |-> "image", url |-> 2] }

SeqsUpTo(S, n) == UNION { [1..k -> S] : k \in 0..n }

InviteContents ==
    { [NoContent EXCEPT !.invites = i, !.guild = g] :
          i \in SeqsUpTo(Codes, MaxInvites),
          g \in [Codes -> {"none", "white", "other"}] }

EmbedContents ==
    { [NoContent EXCEPT !.embeds = e, !.urls = t] :
          e \in SeqsUpTo(Embeds, MaxEmbeds), t \in { {}, {1} } }

Contents == InviteContents \cup EmbedContents

\* One message, created in a channel or in a DM, and its edits at later
\* times, after any elapsed time.
EditHits == { {}, {"filter_domains"}, {"watch_rich_embeds", "watch_words"},
              {"watch_tokens"} }

NextEdits ==
    \/ \E private \in BOOLEAN, hits \in EditHits :
          on_message(1, 1, private, Plain, FALSE, hits, NoContent, EnvOk, 1, FALSE)
    \/ \E elapsed \in ElapsedMicros, hits \in EditHits :
          on_message_edit(1, elapsed, Plain, FALSE, hits, NoContent, EnvOk)
    \/ \E env \in DelEnvs : TaskStart(1, env)
    \/ \E env \in DelEnvs : TaskWake(1, env)
    \/ TickTo(Horizon)

SpecEdits == Init /\ [][NextEdits]_vars

NextMatchers ==
    \/ \E private \in BOOLEAN, content \in Contents :
          on_message(1, 1, private, Plain, FALSE, {}, content, EnvOk, 1, FALSE)
    \/ \E content \in EmbedContents :
          on_message_edit(1, 100, Plain, FALSE, {}, content, EnvOk)

SpecMatchers == Init /\ [][NextMatchers]_vars

\* The deferred deletions with the edit events taken in the two steps that
\* their await of the store separates, so that a task can run between them.
\* Handler 1 runs the creation of message 1, handler 2 its edits.
NextAwaits ==
    \/ \E hits \in SchedHits :
          on_message(1, 1, FALSE, Plain, FALSE, hits, NoContent, EnvOk, 1, FALSE)
    \/ on_message_edit_posted(2, 1, 1000050, Plain, {"watch_tokens"})
    \/ on_message_edit_resumed(2, 1, 1000050, Plain, {"watch_tokens"})
    \/ \E env \in DelEnvs : TaskStart(1, env)
    \/ \E env \in DelEnvs : TaskWake(1, env)
    \/ ExternalDelete(1)
    \/ TickTo(Horizon)

SpecAwaits == InitSched /\ [][NextAwaits]_vars

\* The username checks with the fairness of the event loop: a coroutine that
\* can go on does go on, a send returns or raises.
FairNames ==
    /\ SpecNames
    /\ \A p \in Procs :
          /\ WF_vars(NameAcquire(p))
          /\ WF_vars(NameCheck(p))
          /\ WF_vars(\E ok \in BOOLEAN : NameSend(p, ok))
          /\ WF_vars(NameSet(p))

\* expand_spoilers applied to every text of up to MaxText characters.
Texts == SeqsUpTo(Chars, MaxText)

InitSpoilers ==
    /\ InitBase({[enabled |-> RuleSet, notify |-> HardFilters]})
    /\ \E text \in Texts : last = [NoCall EXCEPT !.kind = "text", !.text = text]

\* lines 359-360: _has_watch_regex_match calls expand_spoilers(text).
ExpandSpoilers ==
    /\ last.kind = "text"
    /\ last' = [last EXCEPT !.kind = "expanded",
                            !.split_text = SPOILER_RE_split(last.text),
                            !.expanded = expand_spoilers(last.text)]
    /\ UNCHANGED <<now, Filter, msgs, store, tasks, boot,
                   name_alerts, name_lock, pc, member, alerts>>

NextSpoilers == ExpandSpoilers

SpecSpoilers == InitSpoilers /\ [][NextSpoilers]_vars

\* The scheduler's specification with the fairness of the event loop: time
\* passes, a task that can run does run, the recovery task runs.
FairSpec ==
    /\ Spec
    /\ WF_vars(TickTo(Horizon))
    /\ \A id \in MsgIds : WF_vars(\E env \in DelEnvs : TaskStart(id, env))
    /\ \A id \in MsgIds : WF_vars(\E env \in DelEnvs : TaskWake(id, env))
    /\ WF_vars(\E env \in DelEnvs : reschedule_offensive_msg_deletion(env))

----------------------------------------------------------------------------
(* Properties *)

IsEvent == last.kind \in {"new", "edit"}
IsDeletion == last.kind = "deletion"

Idx(name) == CHOOSE i \in 1..Len(RuleNames) : RuleNames[i] = name
Count(seq, x) == Cardinality({i \in 1..Len(seq) : seq[i] = x})

\* The event's sender is exempt from filtering.
ExemptSender ==
    last.channel_whitelisted \/ last.author.role_whitelisted \/ last.author.bot

\* The rules the event's loop calls the matcher of, were it to run to its
\* end: the enabled ones, but for the embeds rule on a double trigger.
Considered ==
    {i \in 1..Len(RuleNames) :
        /\ RuleNames[i] \in Filter.enabled
        /\ ~(RuleNames[i] = "watch_rich_embeds"
             /\ last.delta # NoDelta /\ last.delta < DoubleTriggerMicros)}

Matching == {i \in Considered : RuleNames[i] \in last.hits}
FirstMatch == CHOOSE i \in Matching : \A j \in Matching : i <= j

\* C1: in every event at most one rule acts (delete, notification, store
\* write, scheduling, counter, moderation log); it is the first enabled rule
\* in declaration order whose matcher matches, and no rule declared after it
\* is evaluated.
C1_FirstMatchWins ==
    IsEvent =>
        /\ Len(last.acted) <= 1
        /\ last.trace # <<>> => Len(last.acted) = 1
        /\ \A k \in 1..Len(last.acted) :
              Matching # {} /\ last.acted[k] = RuleNames[FirstMatch]
        /\ \A k \in 1..Len(last.evaluated) :
              Matching # {} => Idx(last.evaluated[k]) <= FirstMatch

\* C1 witness: a message matching two enabled rules, of which the first
\* deleted it and reported, the second was not evaluated.
C1_Witness ==
    /\ last.kind = "new"
    /\ last.hits = {"filter_invites", "watch_words"}
    /\ last.hits \subseteq Filter.enabled
    /\ last.acted = <<"filter_invites">>
    /\ last.end = "break"
    /\ Has(last.trace, "delete") /\ Has(last.trace, "modlog")

\* C2: a record in the store leads to the deletion-and-cleanup of its
\* message, which removes the record, over restarts.
C2_EventuallyDeleted ==
    \A id \in MsgIds : store[id].present ~> ~store[id].present

\* C3: once the startup recovery has ended, every record it fetched has been
\* deleted at once or registered with the scheduler.
C3_RecoveryHandlesAll ==
    boot.status # "pending" =>
        \A id \in boot.fetched : id \in boot.deleted \cup boot.scheduled

\* C4 (as claimed): a scheduled task never attempts the deletion before the
\* delete-at time.
C4_NeverBeforeDeleteAt == IsDeletion => last.lead = 0

\* C4 (amended): a scheduled task never attempts the deletion more than one
\* second before the delete-at time.
C4_AtMostOneSecondEarly == IsDeletion => last.lead <= ShortDelaySeconds

\* C4 witness: a task has run the deletion one second before delete-at.
C4_Witness == IsDeletion /\ last.lead = ShortDelaySeconds /\ last.result = "deleted"

C6_AlwaysPurged == IsDeletion => last.had_record /\ last.purged

\* C6 witness: the delete failed with an HTTP error and the record is gone.
C6_Witness ==
    /\ IsDeletion
    /\ last.result = "HTTPException"
    /\ ~store[last.id].present
    /\ msgs[last.id].state = "live"

\* C7: at most one task is pending per message id.
C7_OneTaskPerId == \A id \in MsgIds : tasks[id].count <= 1

\* C7 witness: schedule_task was called for an id that had a pending task.
C7_Witness == \E id \in MsgIds : tasks[id].replaced /\ tasks[id].count = 1

\* C8: for an exempt sender no rule is evaluated and nothing is done.
C8_ExemptSkipsAll ==
    (IsEvent /\ ExemptSender) =>
        /\ last.evaluated = <<>>
        /\ last.trace = <<>>
        /\ last.end = "exempt"

\* C8 witness: a bot's message that a rule would match.
C8_Witness ==
    /\ IsEvent /\ last.author.bot /\ ~last.channel_whitelisted
    /\ last.hits \cap Filter.enabled # {}
    /\ last.evaluated = <<>>

\* C9: a hard filter matches outside a DM and the message is already gone:
\* nothing is done and the evaluation ends with that rule.
C9_NotFoundStops ==
    (IsEvent /\ ~ExemptSender /\ Matching # {} /\ ~last.private /\ ~last.found
        /\ RuleNames[FirstMatch] \in HardFilters) =>
        /\ last.end = "not_found"
        /\ last.trace = <<>>
        /\ last.acted = <<>>
        /\ last.evaluated[Len(last.evaluated)] = RuleNames[FirstMatch]

\* C9 witness: an edit event for a deleted message, matching a hard filter
\* and a later rule.
C9_Witness ==
    /\ last.kind = "edit" /\ ~last.found /\ ~last.private
    /\ last.hits = {"filter_invites", "watch_words"}
    /\ last.hits \subseteq Filter.enabled
    /\ last.end = "not_found"

\* C10: every event of a non-exempt sender in which an enabled rule matches,
\* the message not being already gone and the transport not failing, emits
\* one moderation-log record and increments the counter once.
C10_OneAlertPerMatch ==
    (IsEvent /\ ~ExemptSender /\ Matching # {}
        /\ last.end \notin {"not_found", "delete_error", "post_error", "modlog_error"}) =>
        /\ Count(last.trace, "modlog") = 1
        /\ Count(last.trace, "incr") = 1

\* The rule that acts in the event asks for the deferred deletion.
Flagging ==
    /\ IsEvent /\ ~ExemptSender /\ Matching # {}
    /\ "schedule_deletion" \in DOMAIN filters(Filter)[RuleNames[FirstMatch]]
    /\ filters(Filter)[RuleNames[FirstMatch]].schedule_deletion

Before(seq, x, y) ==
    \E i, j \in 1..Len(seq) : i < j /\ seq[i] = x /\ seq[j] = y

\* C11: an event in which a rule with schedule_deletion acts, outside a DM and
\* with the store accepting the write, writes one record to the store and
\* then registers it with the scheduler; every record and every task carries
\* delete-at = creation time + retention period, whichever event produced it;
\* for a message in a DM nothing is written and nothing is scheduled.
C11_DeleteAtFromCreation ==
    /\ (Flagging /\ ~last.private /\ last.end # "post_error") =>
          /\ Count(last.trace, "post") = 1
          /\ Count(last.trace, "schedule") = 1
          /\ Before(last.trace, "post", "schedule")
          /\ store[last.id].present
          /\ tasks[last.id].pc # "none"
    /\ (Flagging /\ last.private) =>
          ~Has(last.trace, "post") /\ ~Has(last.trace, "schedule")
    /\ \A id \in MsgIds :
          /\ store[id].present =>
                store[id].delete_at = msgs[id].created_at + OFFENSIVE_MSG_DELETE_TIME
          /\ tasks[id].pc # "none" =>
                tasks[id].delete_at = msgs[id].created_at + OFFENSIVE_MSG_DELETE_TIME
          /\ msgs[id].private => ~store[id].present /\ tasks[id].pc = "none"

\* C11 witness: an edit, later than the creation, has produced a second record
\* for a message that already had a task; the record has the same delete-at.
C11_Witness ==
    /\ last.kind = "edit" /\ Has(last.trace, "schedule")
    /\ now > msgs[last.id].created_at
    /\ tasks[last.id].replaced
    /\ store[last.id].delete_at = msgs[last.id].created_at + OFFENSIVE_MSG_DELETE_TIME

\* C12: no event both deletes its message at once and writes or schedules a
\* deferred deletion for it.
C12_DeleteOrSchedule ==
    IsEvent =>
        ~(Has(last.trace, "delete")
          /\ (Has(last.trace, "post") \/ Has(last.trace, "schedule")))

\* C12 witness: an edit matches a hard filter and a rule with schedule_deletion;
\* the message is deleted and no record is written.
C12_Witness ==
    /\ last.kind = "edit"
    /\ last.hits = {"filter_invites", "watch_words"}
    /\ last.hits \subseteq Filter.enabled
    /\ Has(last.trace, "delete")
    /\ ~store[last.id].present /\ tasks[last.id].pc = "none"

\* The loop of the event reaches the embeds rule: the rule is enabled and no
\* enabled rule declared before it matches.
EmbedsReached ==
    /\ IsEvent /\ ~ExemptSender
    /\ "watch_rich_embeds" \in Filter.enabled
    /\ \A i \in 1..(Idx("watch_rich_embeds") - 1) :
          RuleNames[i] \in Filter.enabled => RuleNames[i] \notin last.hits

\* C13: the embeds rule is skipped exactly in an edit whose elapsed time since
\* the previous edit, or since the creation, is below 100 microseconds; when it
\* is skipped the rule declared after it is still evaluated.
C13_SkippedOnlyBelowThreshold ==
    EmbedsReached =>
        /\ Has(last.evaluated, "watch_rich_embeds")
              <=> ~(last.kind = "edit" /\ last.elapsed < DoubleTriggerMicros)
        /\ (~Has(last.evaluated, "watch_rich_embeds")
              /\ "watch_words" \in Filter.enabled)
              => Has(last.evaluated, "watch_words")

\* C14: every message-created event runs the username check, whatever
\* _filter_message did for the message.
C14_NameCheckEveryMessage ==
    last.kind = "new" =>
        /\ last.name_check
        /\ \E p \in Procs : pc[p] # "idle"

\* The rule that acts in the event is a hard filter that notifies the author,
\* outside a DM, and the message has been deleted.
Notifying ==
    /\ IsEvent /\ ~ExemptSender /\ Matching # {}
    /\ RuleNames[FirstMatch] \in HardFilters \cap Filter.notify
    /\ ~last.private
    /\ Has(last.trace, "delete")

\* C15: when a hard filter notifies the author and the direct message is
\* refused, one mention is sent in the channel instead, directly after the
\* refusal; the refusal does not end the event, which goes on to the counter
\* and to the moderation-log record.
C15_RefusedDmFallsBack ==
    /\ Notifying =>
          Count(last.trace, "dm") + Count(last.trace, "dm_refused") = 1
    /\ (IsEvent /\ Has(last.trace, "dm_refused")) =>
          /\ Notifying
          /\ Count(last.trace, "mention") = 1
          /\ \E i \in 1..(Len(last.trace) - 1) :
                last.trace[i] = "dm_refused" /\ last.trace[i + 1] = "mention"
          /\ ~Has(last.trace, "dm")
          /\ last.end \in {"break", "modlog_error"}
          /\ Has(last.trace, "incr")
          /\ last.end = "break" => Count(last.trace, "modlog") = 1

\* C15 witness: the direct message was refused, the mention was sent and the
\* moderation-log record was emitted.
C15_Witness ==
    /\ IsEvent /\ Has(last.trace, "dm_refused") /\ Has(last.trace, "mention")
    /\ last.end = "break" /\ Has(last.trace, "modlog")
    /\ msgs[last.id].state = "gone"

\* The user has a cooldown record with a timestamp within the last 3 days.
Within(u) ==
    name_alerts[u] # None /\ now - name_alerts[u] < timedelta_days(DAYS_BETWEEN_ALERTS)

SentUnchanged == \A u \in Users : alerts'[u].sent = alerts[u].sent

InvitesCalled ==
    /\ IsEvent /\ Has(last.evaluated, "filter_invites")
    /\ last.content.invites # <<>>

CodesOf(kind) ==
    {last.content.invites[i] : i \in
        {j \in 1..Len(last.content.invites) :
            last.content.guild[last.content.invites[j]] = kind}}

\* C17: the invites matcher looks each distinct code of a message up at most
\* once, whatever guild the code resolves to.
C17_OneLookupPerCode ==
    InvitesCalled => \A c \in Codes : Count(last.scan.lookups, c) <= 1

\* C18: the invites matcher returns the sentinel True if a code of the message
\* resolves to no guild, and then it keeps no invite data; else the mapping
\* whose keys are exactly the codes resolving to a guild outside the
\* whitelist; else False when there is no such code.  With the sentinel, a
\* message outside a DM is deleted, and it is logged without supplementary
\* embeds; with a mapping, the log has one embed per key.
C18_InviteResult ==
    InvitesCalled =>
        /\ last.scan.result =
              IF CodesOf("none") # {} THEN "True"
              ELSE IF CodesOf("other") # {} THEN "dict"
              ELSE "False"
        /\ last.scan.data = IF CodesOf("none") # {} THEN {} ELSE CodesOf("other")
        /\ last.scan.result = "True" =>
              /\ last.matched = <<"filter_invites">>
              /\ ~last.private => Has(last.trace, "delete") /\ msgs[last.id].state = "gone"
              /\ last.private => ~Has(last.trace, "delete")
              /\ Count(last.trace, "modlog") = 1
              /\ ~last.additional_embeds.given
        /\ last.scan.result = "dict" =>
              /\ Count(last.trace, "modlog") = 1
              /\ last.additional_embeds.given
              /\ last.additional_embeds.codes = CodesOf("other")
        /\ last.scan.result = "False" => ~Has(last.matched, "filter_invites")

\* C18 witness: the first code resolves to a guild outside the whitelist, the
\* second to no guild: the result is the sentinel, the message is deleted and
\* logged without supplementary embeds.
C18_Witness ==
    /\ InvitesCalled /\ ~last.private
    /\ Len(last.content.invites) >= 2
    /\ last.content.guild[last.content.invites[1]] = "other"
    /\ last.content.guild[last.content.invites[2]] = "none"
    /\ last.scan.result = "True" /\ Len(last.scan.lookups) = 2
    /\ Has(last.trace, "delete") /\ Has(last.trace, "modlog")
    /\ ~last.additional_embeds.given

\* C19: the embeds matcher returns true exactly when some embed of the
\* message is rich and has no URL or a URL that is not among the URLs of the
\* text, in whatever order the embeds come.
C19_RichEmbedIffAny ==
    (IsEvent /\ Has(last.evaluated, "watch_rich_embeds")) =>
        (Has(last.matched, "watch_rich_embeds") <=>
            \E i \in 1..Len(last.content.embeds) :
                /\ last.content.embeds[i].type = "rich"
                /\ \/ last.content.embeds[i].url = Empty
                   \/ last.content.embeds[i].url \notin last.content.urls)

TransportFailures == {"delete_error", "post_error", "modlog_error"}

\* C20: an event that ends with a transport failure (the delete of a hard
\* filter failing otherwise than with not-found, the store write failing, the
\* moderation-log send failing) leaves its handler at once: the username check
\* is not begun and no lock is held.  It changes nothing about other
\* messages; a failed delete leaves the message, the store and the scheduler
\* as they were; a failed store write
\* writes no record and registers no task; a failed log send leaves what was
\* done before it, and the task of the message changes only if the event
\* scheduled it after a successful write.
C20_FailureIsLocal ==
    [][ (IsEvent' /\ last'.end \in TransportFailures /\ last' # last) =>
          /\ pc' = pc /\ member' = member /\ name_lock' = name_lock
          /\ \A id \in MsgIds \ {last'.id} :
                tasks'[id] = tasks[id] /\ store'[id] = store[id] /\ msgs'[id] = msgs[id]
          /\ last'.end = "delete_error" =>
                /\ last'.trace = <<>>
                /\ msgs'[last'.id].state = "live"
                /\ store' = store /\ tasks' = tasks
          /\ last'.end = "post_error" =>
                /\ ~Has(last'.trace, "post") /\ ~Has(last'.trace, "schedule")
                /\ msgs'[last'.id].state # "none"
                /\ msgs[last'.id].state # "none" =>
                       msgs'[last'.id].state = msgs[last'.id].state
                /\ store' = store /\ tasks' = tasks
          /\ last'.end = "modlog_error" =>
                /\ tasks' # tasks => Before(last'.trace, "post", "schedule")
                /\ store' # store => Has(last'.trace, "post")
      ]_vars

\* C20 witness: the store refused the record of a new message: the message
\* has no record and no task, and its handler has ended without the username
\* check.
C20_Witness ==
    /\ last.kind = "new" /\ last.end = "post_error"
    /\ ~store[last.id].present /\ tasks[last.id].pc = "none"
    /\ msgs[last.id].state = "live"
    /\ ~last.name_check /\ \A p \in Procs : pc[p] = "idle"

Segments == {last.split_text[i] : i \in 1..Len(last.split_text)}

\* s occurs in t as a run of consecutive characters.
OccursIn(s, t) ==
    \E k \in 0..(Len(t) - Len(s)) : SubSeq(t, k + 1, k + Len(s)) = s

\* The segments at the even (rest 0) or odd (rest 1) indices of the split,
\* counted from zero, joined in order.
SegmentsAt(rest) ==
    join([k \in 1..Cardinality({i \in 1..Len(last.split_text) : (i - 1) % 2 = rest})
             |-> last.split_text[2 * k - 1 + rest]])

\* C21: expand_spoilers(text) is the even-indexed segments of the spoiler
\* split, then the odd-indexed ones, then the whole split joined, which is
\* the text; every segment occurs in the result; a text without a spoiler
\* gives the text twice.
C21_ExpandSpoilers ==
    last.kind = "expanded" =>
        /\ last.expanded = SegmentsAt(0) \o SegmentsAt(1) \o join(last.split_text)
        /\ join(last.split_text) = last.text
        /\ \A s \in Segments : OccursIn(s, last.expanded)
        /\ Len(last.split_text) = 1 => last.expanded = last.text \o last.text

\* C21 witness: a text with two spoilers and text between them.
C21_Witness ==
    /\ last.kind = "expanded"
    /\ Len(last.split_text) = 5
    /\ last.split_text[3] # <<>>
    /\ last.expanded # last.text \o last.text

\* C22: every message id with a task registered in memory has a record in
\* the store.
C22_TaskHasRecord ==
    \A id \in MsgIds : tasks[id].pc # "none" => store[id].present

\* C23: a hard filter matches a message of a DM: the message is not deleted,
\* the author is not notified, nothing is written or scheduled, the
\* evaluation ends with that rule, and one moderation-log record, saying
\* "via DM", is emitted unless the send of the log fails.
C23_HardFilterInDM ==
    (IsEvent /\ ~ExemptSender /\ Matching # {} /\ last.private
        /\ RuleNames[FirstMatch] \in HardFilters) =>
        /\ ~Has(last.trace, "delete")
        /\ ~Has(last.trace, "dm") /\ ~Has(last.trace, "dm_refused")
        /\ ~Has(last.trace, "mention")
        /\ ~Has(last.trace, "post") /\ ~Has(last.trace, "schedule")
        /\ last.evaluated[Len(last.evaluated)] = RuleNames[FirstMatch]
        /\ last.matched = <<RuleNames[FirstMatch]>>
        /\ last.end \in {"break", "modlog_error"}
        /\ last.end = "break" => Count(last.trace, "modlog") = 1
        /\ last.channel_str = "via DM"

\* C23 witness: a new message in a DM matches a hard filter that notifies and
\* a later rule; it stays, and the log record is emitted.
C23_Witness ==
    /\ last.kind = "new" /\ last.private
    /\ last.hits = {"filter_invites", "watch_words"}
    /\ last.hits \subseteq Filter.enabled
    /\ "filter_invites" \in Filter.notify
    /\ last.trace = <<"incr", "modlog">>
    /\ msgs[last.id].state = "live"

InBlock == {"check", "send", "set"}

\* C24: the lock is held exactly while a check is inside the block; a check
\* whose alert fails to be sent leaves the block with the lock free and the
\* cache as it was; every check waiting for the lock enters the block.
C24_LockReleased ==
    /\ [](\A p \in Procs : pc[p] \in InBlock <=> name_lock = p)
    /\ [][\A p \in Procs :
            (pc[p] = "send" /\ pc'[p] = "idle") =>
                /\ name_lock' = 0
                /\ name_alerts' = name_alerts
                /\ SentUnchanged]_vars
    /\ \A p \in Procs : (pc[p] = "acquire") ~> (pc[p] = "check")

\* C24 witness: the alert of one check failed to be sent, the user has no
\* record, and another check has entered the block since.
C24_Witness ==
    \E p \in Procs, u \in Users :
        /\ alerts[u].failed
        /\ alerts[u].sent = <<>> /\ name_alerts[u] = None
        /\ pc[p] = "check" /\ name_lock = p

\* Every occurrence of a label of X comes before every occurrence of a label
\* of Y.
AllBefore(seq, X, Y) ==
    \A i, j \in 1..Len(seq) : (seq[i] \in X /\ seq[j] \in Y) => i < j

Notices == {"dm", "dm_refused", "mention"}

\* C25: within one event the delete comes before the notification of the
\* author and both before the moderation-log record; the store write comes
\* before the registration with the scheduler and both before the
\* moderation-log record; an author is notified only after a delete and a
\* task registered only after a write; a hard filter that acts outside a DM
\* emits a moderation-log record only after its delete has succeeded.
C25_FixedOrder ==
    IsEvent =>
        /\ AllBefore(last.trace, {"delete"}, Notices)
        /\ AllBefore(last.trace, {"delete"} \cup Notices, {"modlog"})
        /\ AllBefore(last.trace, {"post"}, {"schedule"})
        /\ AllBefore(last.trace, {"post", "schedule"}, {"modlog"})
        /\ (\E n \in Notices : Has(last.trace, n)) => Has(last.trace, "delete")
        /\ Has(last.trace, "schedule") => Has(last.trace, "post")
        /\ (Notifying /\ Has(last.trace, "modlog")) =>
              \E n \in Notices : Before(last.trace, n, "modlog")
        /\ (Flagging /\ ~last.private /\ Has(last.trace, "modlog")) =>
              /\ Before(last.trace, "post", "schedule")
              /\ Before(last.trace, "schedule", "modlog")
        /\ (~ExemptSender /\ Matching # {} /\ ~last.private
              /\ RuleNames[FirstMatch] \in HardFilters
              /\ Has(last.trace, "modlog")) =>
              /\ last.found
              /\ Before(last.trace, "delete", "modlog")
              /\ msgs[last.id].state = "gone"

\* C25 witness: a message whose record was written and registered by an
\* earlier event is edited and matches a hard filter: it is deleted, the
\* author is told by direct message, and the moderation-log record follows.
C25_Witness ==
    /\ last.kind = "edit"
    /\ last.trace = <<"delete", "dm", "incr", "modlog">>
    /\ store[last.id].present /\ tasks[last.id].pc # "none"

====
